---- MODULE Spec2Model ----
(***************************************************************************)
(* Model of the registry-auth server's startup and wiring:                 *)
(*   - package config: the password authenticator factory registry,        *)
(*     PasswordAuthenticator.UnmarshalYAML, userAuthenticator.New/Validate  *)
(*   - package main: main(), from flag parsing to http.ListenAndServe       *)
(*   - package auth: the PasswordAuthenticator contract                     *)
(* Parts of the repository that these sources only call (the generic        *)
(* factoryRegistry, unknownFactoryType, config.Validate, the authn user     *)
(* authenticator, the TokenServer handlers) follow the specification.       *)
(***************************************************************************)
EXTENDS Integers, Sequences, FiniteSets, TLC

VARIABLES
    pc,                 \* position of the process: init phase, a line of main(), serving, ended
    registry,           \* passwordAuthenticatorFactoryRegistry: type name -> constructor
    registerCalls,      \* number of RegisterPasswordAuthenticatorFactory calls made by importers
    lastRegister,       \* arguments of the latest RegisterPasswordAuthenticatorFactory call
    exitMsg,            \* what the process logged before os.Exit(1) / the panic value
    configFile,         \* the configuration document given with -config
    cfg,                \* var config config.Config (the password authenticator part)
    decoded,            \* factories that decode() populated during UnmarshalYAML
    unmarshalErr,       \* error returned by PasswordAuthenticator.UnmarshalYAML
    paValidateErr,      \* error returned by the password authenticator factory's Validate
    validateErr,        \* error returned by config.Validate()
    constructed,        \* components whose New() has been called
    passwordAuthenticator,
    accessTokenIssuer,
    refreshTokenIssuer,
    refreshTokenVerifier,
    subjectRepository,
    refreshTokenAuthenticator,
    tokenIssuer,
    authenticator,
    authorizer,
    service,
    server,
    router,
    listening,          \* http.ListenAndServe is accepting connections
    lastCall            \* the latest request served: route, service invoked, outcome

vars == <<pc, registry, registerCalls, lastRegister, exitMsg, configFile, cfg, decoded,
          unmarshalErr, paValidateErr, validateErr, constructed, passwordAuthenticator,
          accessTokenIssuer, refreshTokenIssuer, refreshTokenVerifier, subjectRepository,
          refreshTokenAuthenticator, tokenIssuer, authenticator, authorizer, service,
          server, router, listening, lastCall>>

startupVars == <<configFile, cfg, decoded, unmarshalErr, paValidateErr, validateErr,
                 constructed>>

componentVars == <<passwordAuthenticator, accessTokenIssuer, refreshTokenIssuer,
                   refreshTokenVerifier, subjectRepository, refreshTokenAuthenticator,
                   tokenIssuer, authenticator, authorizer>>

serverVars == <<service, server, router, listening, lastCall>>

registryVars == <<registry, registerCalls, lastRegister>>

----
\* Bounds of the model.

\* Calls of RegisterPasswordAuthenticatorFactory made by importing packages' init functions.
MaxRegisterCalls == 2

\* Length of userAuthenticator.Entries in the configuration document.
MaxEntries == 2

----
\* Values.


\* func() PasswordAuthenticatorFactory values; NilFactory is the nil func.
NilFactory == "nil"
UserFactory == "userAuthenticator"
OtherFactory == "otherAuthenticator"

TypeNames == {"user", "other", "bogus"}
RegisterNames == {"user", "other"}
RegisterFactories == {NilFactory, OtherFactory}

Usernames == {"", "alice"}
PasswordHashes == {"", "h1"}

\* type user struct (Attrs left out: no modelled operation reads it).
User == [Enabled : BOOLEAN, Username : Usernames, PasswordHash : PasswordHashes]

RECURSIVE SeqsUpTo(_, _)
SeqsUpTo(S, n) ==
    IF n = 0 THEN {<<>>}
    ELSE LET shorter == SeqsUpTo(S, n - 1)
         IN  shorter \cup {Append(s, x) : s \in {t \in shorter : Len(t) = n - 1}, x \in S}

\* A factory value as held in a configuration struct: the zero value a constructor
\* returns, later populated by decode(), or the unknownFactoryType placeholder.
FactoryValue(kind, entries, factoryType, typ) ==
    [kind |-> kind, Entries |-> entries, factoryType |-> factoryType, typ |-> typ]

\* The nil factory: the zero value of a configuration struct's embedded factory.
Nil == FactoryValue("nil", <<>>, "", "")

\* Calling a registered constructor: func() PasswordAuthenticatorFactory { return userAuthenticator{} }
CallConstructor(constructor) == FactoryValue(constructor, <<>>, "", "")

\* The documents the configuration file can hold (the password authenticator node):
\*   readable: os.Open succeeds;  rawOk: the node decodes into rawConfig;
\*   type: rawConfig.Type;  shapeOk: rawConfig.Config decodes into the factory;
\*   entries: the "entries" list of rawConfig.Config.
ConfigFiles ==
    {[readable |-> FALSE, rawOk |-> FALSE, type |-> "bogus", shapeOk |-> FALSE, entries |-> <<>>],
     [readable |-> TRUE, rawOk |-> FALSE, type |-> "bogus", shapeOk |-> FALSE, entries |-> <<>>]}
    \cup [readable : {TRUE}, rawOk : {TRUE}, type : TypeNames, shapeOk : {FALSE},
          entries : {<<>>}]
    \cup [readable : {TRUE}, rawOk : {TRUE}, type : TypeNames \ {"user"}, shapeOk : {TRUE},
          entries : {<<>>}]
    \cup [readable : {TRUE}, rawOk : {TRUE}, type : {"user"}, shapeOk : {TRUE},
          entries : SeqsUpTo(User, MaxEntries)]

NoFile == [readable |-> FALSE, rawOk |-> FALSE, type |-> "", shapeOk |-> FALSE, entries |-> <<>>]

----
\* The factory registry (factoryRegistry[T]).

\* RegisterFactory: an error, and no change, when the name is taken or the
\* constructor is nil; otherwise the entry is added.
RegisterFactory(reg, name, factory) ==
    IF factory = NilFactory
    THEN [registry |-> reg, err |-> "factory is nil"]
    ELSE IF name \in DOMAIN reg
    THEN [registry |-> reg, err |-> "factory already registered"]
    ELSE [registry |-> [n \in DOMAIN reg \cup {name} |-> IF n = name THEN factory ELSE reg[n]],
          err |-> ""]

\* GetFactory: a pure lookup; on a hit the constructor is called.
GetFactory(reg, name) ==
    IF name \in DOMAIN reg
    THEN [factory |-> CallConstructor(reg[name]), ok |-> TRUE]
    ELSE [factory |-> Nil, ok |-> FALSE]

\* Faulty variant: the error of RegisterFactory is dropped instead of raised.
RegisterPasswordAuthenticatorFactoryNoPanic(reg, name, factory) ==
    LET r == RegisterFactory(reg, name, factory)
    IN  [registry |-> r.registry, panic |-> ""]

\* RegisterPasswordAuthenticatorFactory: panics when RegisterFactory returns an error.
RegisterPasswordAuthenticatorFactory(reg, name, factory) ==
    LET r == RegisterFactory(reg, name, factory)
    IN  IF r.err # ""
        THEN [registry |-> r.registry,
              panic |-> "registering password authenticator factory: " \o r.err]
        ELSE [registry |-> r.registry, panic |-> ""]

----
\* Errors. NoErr is the nil error; NotRun marks a call that has not happened.

Err(kind, component, index, detail) ==
    [kind |-> kind, component |-> component, index |-> index, detail |-> detail]

NoErr == Err("nil", "", -1, "")
NotRun == Err("not run", "", -1, "")

\* auth.ErrAuthenticationFailed = errors.New("authentication failed")
ErrAuthenticationFailed == Err("authentication failed", "", -1, "")

----
\* package config: decoding, validation and construction of the password authenticator.

\* decode(rawConfig.Config, &factory): populates the factory from the raw
\* configuration map, or fails when the map does not fit the factory.
decode(value, factory) ==
    IF value.shapeOk
    THEN [factory |-> [factory EXCEPT !.Entries = value.entries], err |-> NoErr]
    ELSE [factory |-> factory, err |-> Err("decode", "", -1, "")]

\* Faulty variant: a lookup miss is treated as a programming error.
UnmarshalYAMLPanicOnMiss(reg, c, value) ==
    IF ~value.rawOk
    THEN [c |-> c, err |-> Err("yaml", "", -1, ""), decoded |-> {}, panic |-> ""]
    ELSE LET g == GetFactory(reg, value.type)
         IN  IF ~g.ok
             THEN [c |-> c, err |-> NoErr, decoded |-> {},
                   panic |-> "unknown password authenticator type"]
             ELSE LET d == decode(value, g.factory)
                  IN  IF d.err # NoErr
                      THEN [c |-> c, err |-> d.err, decoded |-> {g.factory.kind},
                            panic |-> ""]
                      ELSE [c |-> d.factory, err |-> NoErr, decoded |-> {g.factory.kind},
                            panic |-> ""]

\* func (c *PasswordAuthenticator) UnmarshalYAML(value *yaml.Node) error
\* c is c.PasswordAuthenticatorFactory; decoded collects the factories handed to decode().
UnmarshalYAML(reg, c, value) ==
    IF ~value.rawOk
    THEN [c |-> c, err |-> Err("yaml", "", -1, ""), decoded |-> {}, panic |-> ""]
    ELSE LET g == GetFactory(reg, value.type)
         IN  IF ~g.ok
             THEN [c |-> FactoryValue("unknownFactoryType", <<>>, "password authenticator",
                                      value.type),
                   err |-> NoErr, decoded |-> {}, panic |-> ""]
             ELSE LET d == decode(value, g.factory)
                  IN  IF d.err # NoErr
                      THEN [c |-> c, err |-> d.err, decoded |-> {g.factory.kind},
                            panic |-> ""]
                      ELSE [c |-> d.factory, err |-> NoErr, decoded |-> {g.factory.kind},
                            panic |-> ""]

\* The loop of userAuthenticator.Validate from entry i on (i counts from 1 here;
\* the message carries the Go index i - 1).
RECURSIVE ValidateFrom(_, _)
ValidateFrom(entries, i) ==
    IF i > Len(entries) THEN NoErr
    ELSE IF entries[i].Username = ""
    THEN Err("required", "user authenticator", i - 1, "username")
    ELSE IF entries[i].PasswordHash = ""
    THEN Err("required", "user authenticator", i - 1, "password hash")
    ELSE ValidateFrom(entries, i + 1)

\* Faulty variant: the password hash is looked at first and the username of the entry skipped.
userAuthenticatorValidateHashOnly(c) ==
    LET bad == {i \in 1..Len(c.Entries) : c.Entries[i].PasswordHash = ""}
    IN  IF bad = {} THEN NoErr
        ELSE Err("required", "user authenticator",
                 (CHOOSE i \in bad : \A j \in bad : i <= j) - 1, "password hash")

\* func (c userAuthenticator) Validate() error
userAuthenticatorValidate(c) == ValidateFrom(c.Entries, 1)

\* func (c userAuthenticator) New() (auth.PasswordAuthenticator, error)
\* slices.Map copies every entry into an authn.User; the error is always nil.
\* The in-memory authenticator also serves as a SubjectRepository.
userAuthenticatorNew(c) ==
    [authenticator |->
        [kind |-> "UserAuthenticator",
         entries |-> [i \in 1..Len(c.Entries) |->
                        [Enabled |-> c.Entries[i].Enabled,
                         Username |-> c.Entries[i].Username,
                         PasswordHash |-> c.Entries[i].PasswordHash]],
         isRepo |-> TRUE,
         storeBacked |-> FALSE],
     err |-> NoErr]

\* unknownFactoryType: the placeholder of an unregistered type name; Validate and
\* New both answer with the "unknown component type" configuration error.
unknownFactoryTypeError(c) == Err("unknown component type", c.factoryType, -1, c.typ)

NilAuthenticator == [kind |-> "nil", entries |-> <<>>, isRepo |-> FALSE, storeBacked |-> FALSE]

\* The users behind a store-backed authenticator registered by another package.
OtherStoreUsers == <<[Enabled |-> TRUE, Username |-> "alice", PasswordHash |-> "h1"]>>

\* Factory.Validate() through the interface; ok is the verdict of a factory that
\* another package registered.
FactoryValidate(c, ok) ==
    IF c.kind = "userAuthenticator" THEN userAuthenticatorValidate(c)
    ELSE IF c.kind = "unknownFactoryType" THEN unknownFactoryTypeError(c)
    ELSE IF ok THEN NoErr
    ELSE Err("invalid", "other authenticator", -1, "")

\* Factory.New() through the interface; ok and isRepo are the outcome and the
\* capability of a component that another package registered.
FactoryNew(c, ok, isRepo) ==
    IF c.kind = "userAuthenticator" THEN userAuthenticatorNew(c)
    ELSE IF c.kind = "unknownFactoryType"
    THEN [authenticator |-> NilAuthenticator, err |-> unknownFactoryTypeError(c)]
    ELSE IF ok
    THEN [authenticator |-> [kind |-> "OtherAuthenticator", entries |-> OtherStoreUsers,
                             isRepo |-> isRepo, storeBacked |-> TRUE],
          err |-> NoErr]
    ELSE [authenticator |-> NilAuthenticator, err |-> Err("new", "other authenticator", -1, "")]

\* config.Validate(): the first error among the components' Validate results.
ConfigValidate(paErr, othersErr) == IF paErr # NoErr THEN paErr ELSE othersErr

----
\* Process initialisation: Go runs every package's init() before main().

\* Faulty variant: registration of "user" is put off until the server is up.
ConfigInitLazy ==
    \/ /\ pc = "init"
       /\ pc' = "imports"
       /\ UNCHANGED <<registryVars, exitMsg, startupVars, componentVars, serverVars>>
    \/ /\ pc = "serving"
       /\ "user" \notin DOMAIN registry
       /\ registry' = RegisterPasswordAuthenticatorFactory(registry, "user", UserFactory).registry
       /\ UNCHANGED <<pc, registerCalls, lastRegister, exitMsg, startupVars, componentVars,
                      serverVars>>

\* package config: func init() { RegisterPasswordAuthenticatorFactory("user", ...) }
ConfigInit ==
    /\ pc = "init"
    /\ LET r == RegisterPasswordAuthenticatorFactory(registry, "user", UserFactory)
       IN  /\ registry' = r.registry
           /\ pc' = IF r.panic # "" THEN "panicked" ELSE "imports"
           /\ exitMsg' = r.panic
    /\ UNCHANGED <<registerCalls, lastRegister, startupVars, componentVars, serverVars>>

\* Faulty variant: a registration is also made while the server handles requests.
RegisterCallAnytime ==
    /\ pc \in {"imports", "serving"}
    /\ registerCalls < MaxRegisterCalls
    /\ \E name \in RegisterNames, factory \in RegisterFactories :
         LET r == RegisterPasswordAuthenticatorFactory(registry, name, factory)
         IN  /\ registry' = r.registry
             /\ lastRegister' = [name |-> name, factory |-> factory]
             /\ pc' = IF r.panic # "" THEN "panicked" ELSE pc
             /\ exitMsg' = r.panic
    /\ registerCalls' = registerCalls + 1
    /\ UNCHANGED <<startupVars, componentVars, serverVars>>

\* An importing package's init() calls the exported RegisterPasswordAuthenticatorFactory
\* (config's own init has run: a package is initialised after the packages it imports).
RegisterCall ==
    /\ pc = "imports"
    /\ registerCalls < MaxRegisterCalls
    /\ \E name \in RegisterNames, factory \in RegisterFactories :
         LET r == RegisterPasswordAuthenticatorFactory(registry, name, factory)
         IN  /\ registry' = r.registry
             /\ lastRegister' = [name |-> name, factory |-> factory]
             /\ pc' = IF r.panic # "" THEN "panicked" ELSE "imports"
             /\ exitMsg' = r.panic
    /\ registerCalls' = registerCalls + 1
    /\ UNCHANGED <<startupVars, componentVars, serverVars>>

\* The runtime calls main() once every init() has returned.
StartMain ==
    /\ pc = "imports"
    /\ pc' = "main"
    /\ UNCHANGED <<registryVars, exitMsg, startupVars, componentVars, serverVars>>

----
\* package main: func main(), one action per statement group.

NilComponent == [kind |-> "nil"]
NilRefreshTokenIssuer == [kind |-> "nil", canVerify |-> FALSE]

\* logger.Error(msg); os.Exit(1)
Exit(msg) ==
    /\ pc' = "exited"
    /\ exitMsg' = msg

\* flag.Parse() and the realm check.
MainFlags ==
    /\ pc = "main"
    /\ \E realm \in {"", "registry"} :
         IF realm = "" THEN Exit("must provide realm")
         ELSE pc' = "load" /\ UNCHANGED exitMsg
    /\ UNCHANGED <<registryVars, startupVars, componentVars, serverVars>>

\* os.Open(configFile) and decoder.Decode(&config), which calls UnmarshalYAML.
MainLoadConfig ==
    /\ pc = "load"
    /\ \E file \in ConfigFiles :
         /\ configFile' = file
         /\ IF ~file.readable
            THEN /\ Exit("loading config file")
                 /\ UNCHANGED <<cfg, decoded, unmarshalErr>>
            ELSE LET r == UnmarshalYAML(registry, cfg, file)
                 IN  /\ cfg' = r.c
                     /\ decoded' = r.decoded
                     /\ unmarshalErr' = r.err
                     /\ IF r.panic # "" THEN pc' = "panicked" /\ exitMsg' = r.panic
                        ELSE IF r.err # NoErr THEN Exit("decoding config file")
                        ELSE pc' = "validate" /\ UNCHANGED exitMsg
    /\ UNCHANGED <<registryVars, paValidateErr, validateErr, constructed, componentVars,
                   serverVars>>

\* Faulty variant: the result of config.Validate() is logged and startup goes on.
MainValidateContinue ==
    /\ pc = "validate"
    /\ \E paOk \in BOOLEAN, othersOk \in BOOLEAN :
         LET paErr == FactoryValidate(cfg, paOk)
             err == ConfigValidate(paErr,
                                   IF othersOk THEN NoErr ELSE Err("invalid", "other component", -1, ""))
         IN  /\ paValidateErr' = paErr
             /\ validateErr' = err
             /\ pc' = "newPasswordAuthenticator"
             /\ UNCHANGED exitMsg
    /\ UNCHANGED <<registryVars, configFile, cfg, decoded, unmarshalErr, constructed,
                   componentVars, serverVars>>

\* if err := config.Validate(); err != nil { ... os.Exit(1) }
MainValidate ==
    /\ pc = "validate"
    /\ \E paOk \in BOOLEAN, othersOk \in BOOLEAN :
         LET paErr == FactoryValidate(cfg, paOk)
             err == ConfigValidate(paErr,
                                   IF othersOk THEN NoErr ELSE Err("invalid", "other component", -1, ""))
         IN  /\ paValidateErr' = paErr
             /\ validateErr' = err
             /\ IF err # NoErr THEN Exit("invalid configuration")
                ELSE pc' = "newPasswordAuthenticator" /\ UNCHANGED exitMsg
    /\ UNCHANGED <<registryVars, configFile, cfg, decoded, unmarshalErr, constructed,
                   componentVars, serverVars>>

\* passwordAuthenticator, err := config.PasswordAuthenticator.New()
MainNewPasswordAuthenticator ==
    /\ pc = "newPasswordAuthenticator"
    /\ \E ok \in BOOLEAN, isRepo \in BOOLEAN :
         LET r == FactoryNew(cfg, ok, isRepo)
         IN  /\ passwordAuthenticator' = r.authenticator
             /\ IF r.err # NoErr THEN Exit("creating authenticator")
                ELSE pc' = "newAccessTokenIssuer" /\ UNCHANGED exitMsg
    /\ constructed' = constructed \cup {"PasswordAuthenticator"}
    /\ UNCHANGED <<registryVars, configFile, cfg, decoded, unmarshalErr, paValidateErr,
                   validateErr, accessTokenIssuer, refreshTokenIssuer, refreshTokenVerifier,
                   subjectRepository, refreshTokenAuthenticator, tokenIssuer, authenticator,
                   authorizer, serverVars>>

\* accessTokenIssuer, err := config.AccessTokenIssuer.New()
MainNewAccessTokenIssuer ==
    /\ pc = "newAccessTokenIssuer"
    /\ \E ok \in BOOLEAN :
         IF ok
         THEN /\ accessTokenIssuer' = [kind |-> "AccessTokenIssuer"]
              /\ pc' = "newRefreshTokenIssuer"
              /\ UNCHANGED exitMsg
         ELSE /\ Exit("creating access token issuer")
              /\ UNCHANGED accessTokenIssuer
    /\ constructed' = constructed \cup {"AccessTokenIssuer"}
    /\ UNCHANGED <<registryVars, configFile, cfg, decoded, unmarshalErr, paValidateErr,
                   validateErr, passwordAuthenticator, refreshTokenIssuer,
                   refreshTokenVerifier, subjectRepository, refreshTokenAuthenticator,
                   tokenIssuer, authenticator, authorizer, serverVars>>

\* refreshTokenIssuer, err := config.RefreshTokenIssuer.New()
\* canVerify: whether the issuer built also implements authn.RefreshTokenVerifier.
MainNewRefreshTokenIssuer ==
    /\ pc = "newRefreshTokenIssuer"
    /\ \E ok \in BOOLEAN, canVerify \in BOOLEAN :
         IF ok
         THEN /\ refreshTokenIssuer' = [kind |-> "RefreshTokenIssuer", canVerify |-> canVerify]
              /\ pc' = "checkVerifier"
              /\ UNCHANGED exitMsg
         ELSE /\ Exit("creating refresh token issuer")
              /\ UNCHANGED refreshTokenIssuer
    /\ constructed' = constructed \cup {"RefreshTokenIssuer"}
    /\ UNCHANGED <<registryVars, configFile, cfg, decoded, unmarshalErr, paValidateErr,
                   validateErr, passwordAuthenticator, accessTokenIssuer,
                   refreshTokenVerifier, subjectRepository, refreshTokenAuthenticator,
                   tokenIssuer, authenticator, authorizer, serverVars>>

\* Faulty variant: an issuer that cannot verify is accepted and the flow goes on without a verifier.
MainCheckVerifierLenient ==
    /\ pc = "checkVerifier"
    /\ refreshTokenVerifier' = IF refreshTokenIssuer.canVerify THEN refreshTokenIssuer
                               ELSE NilComponent
    /\ pc' = "checkRepository"
    /\ UNCHANGED <<registryVars, exitMsg, startupVars, passwordAuthenticator,
                   accessTokenIssuer, refreshTokenIssuer, subjectRepository,
                   refreshTokenAuthenticator, tokenIssuer, authenticator, authorizer,
                   serverVars>>

\* refreshTokenVerifier, ok := refreshTokenIssuer.(authn.RefreshTokenVerifier)
MainCheckVerifier ==
    /\ pc = "checkVerifier"
    /\ IF refreshTokenIssuer.canVerify
       THEN /\ refreshTokenVerifier' = refreshTokenIssuer
            /\ pc' = "checkRepository"
            /\ UNCHANGED exitMsg
       ELSE /\ refreshTokenVerifier' = NilComponent
            /\ Exit("refresh token issuer cannot verify refresh tokens")
    /\ UNCHANGED <<registryVars, startupVars, passwordAuthenticator, accessTokenIssuer,
                   refreshTokenIssuer, subjectRepository, refreshTokenAuthenticator,
                   tokenIssuer, authenticator, authorizer, serverVars>>

\* Faulty variant: an authenticator that is no repository is accepted.
MainCheckRepositoryLenient ==
    /\ pc = "checkRepository"
    /\ subjectRepository' = IF passwordAuthenticator.isRepo THEN passwordAuthenticator
                            ELSE NilAuthenticator
    /\ pc' = "wireAuthenticator"
    /\ UNCHANGED <<registryVars, exitMsg, startupVars, passwordAuthenticator,
                   accessTokenIssuer, refreshTokenIssuer, refreshTokenVerifier,
                   refreshTokenAuthenticator, tokenIssuer, authenticator, authorizer,
                   serverVars>>

\* subjectRepository, ok := passwordAuthenticator.(authn.SubjectRepository)
MainCheckRepository ==
    /\ pc = "checkRepository"
    /\ IF passwordAuthenticator.isRepo
       THEN /\ subjectRepository' = passwordAuthenticator
            /\ pc' = "wireAuthenticator"
            /\ UNCHANGED exitMsg
       ELSE /\ subjectRepository' = NilAuthenticator
            /\ Exit("password authenticator should also serve as a subject repository")
    /\ UNCHANGED <<registryVars, startupVars, passwordAuthenticator, accessTokenIssuer,
                   refreshTokenIssuer, refreshTokenVerifier, refreshTokenAuthenticator,
                   tokenIssuer, authenticator, authorizer, serverVars>>

\* authn.NewRefreshTokenAuthenticator(...), auth.TokenIssuer{...}, auth.Authenticator{...}
MainWireAuthenticator ==
    /\ pc = "wireAuthenticator"
    /\ refreshTokenAuthenticator' = [kind |-> "RefreshTokenAuthenticator",
                                     verifier |-> refreshTokenVerifier,
                                     repository |-> subjectRepository]
    /\ tokenIssuer' = [kind |-> "TokenIssuer",
                       AccessTokenIssuer |-> accessTokenIssuer,
                       RefreshTokenIssuer |-> refreshTokenIssuer]
    /\ authenticator' = [kind |-> "Authenticator",
                         PasswordAuthenticator |-> passwordAuthenticator,
                         RefreshTokenAuthenticator |-> refreshTokenAuthenticator']
    /\ pc' = "newAuthorizer"
    /\ UNCHANGED <<registryVars, exitMsg, startupVars, passwordAuthenticator,
                   accessTokenIssuer, refreshTokenIssuer, refreshTokenVerifier,
                   subjectRepository, authorizer, serverVars>>

\* authorizer, err := config.Authorizer.New()
MainNewAuthorizer ==
    /\ pc = "newAuthorizer"
    /\ \E ok \in BOOLEAN :
         IF ok
         THEN /\ authorizer' = [kind |-> "Authorizer"]
              /\ pc' = "wireServer"
              /\ UNCHANGED exitMsg
         ELSE /\ Exit("creating authorizer issuer")
              /\ UNCHANGED authorizer
    /\ constructed' = constructed \cup {"Authorizer"}
    /\ UNCHANGED <<registryVars, configFile, cfg, decoded, unmarshalErr, paValidateErr,
                   validateErr, passwordAuthenticator, accessTokenIssuer, refreshTokenIssuer,
                   refreshTokenVerifier, subjectRepository, refreshTokenAuthenticator,
                   tokenIssuer, authenticator, serverVars>>

TokenServiceImpl == [kind |-> "TokenServiceImpl",
                     Authenticator |-> authenticator,
                     Authorizer |-> authorizer,
                     TokenIssuer |-> tokenIssuer]

LoggerTokenService(inner) == [kind |-> "LoggerTokenService", Service |-> inner]

TokenServer(svc) == [kind |-> "TokenServer", Service |-> svc]

\* Faulty variant: the POST route is bound to a server built around the undecorated service.
MainWireServerBypass ==
    /\ pc = "wireServer"
    /\ service' = LoggerTokenService(TokenServiceImpl)
    /\ server' = TokenServer(service')
    /\ router' = [GET |-> [handler |-> "TokenHandler", server |-> server'],
                  POST |-> [handler |-> "OAuth2Handler", server |-> TokenServer(TokenServiceImpl)]]
    /\ pc' = "listen"
    /\ UNCHANGED <<registryVars, exitMsg, startupVars, componentVars, listening, lastCall>>

\* service = TokenServiceImpl{...}; service = LoggerTokenService{Service: service};
\* server := TokenServer{Service: service}; the two routes of the router.
MainWireServer ==
    /\ pc = "wireServer"
    /\ service' = LoggerTokenService(TokenServiceImpl)
    /\ server' = TokenServer(service')
    /\ router' = [GET |-> [handler |-> "TokenHandler", server |-> server'],
                  POST |-> [handler |-> "OAuth2Handler", server |-> server']]
    /\ pc' = "listen"
    /\ UNCHANGED <<registryVars, exitMsg, startupVars, componentVars, listening, lastCall>>

\* err = http.ListenAndServe(addr, router): the listener starts, or the call
\* returns at once with an error (the address cannot be bound).
MainListenAndServe ==
    /\ pc = "listen"
    /\ \E bound \in BOOLEAN :
         IF bound
         THEN listening' = TRUE /\ pc' = "serving" /\ UNCHANGED exitMsg
         ELSE Exit("error serving") /\ UNCHANGED listening
    /\ UNCHANGED <<registryVars, startupVars, componentVars, service, server, router,
                   lastCall>>

\* http.ListenAndServe returns an error while serving: if err != nil { os.Exit(1) }
ServeFails ==
    /\ pc = "serving"
    /\ listening' = FALSE
    /\ Exit("error serving")
    /\ UNCHANGED <<registryVars, startupVars, componentVars, service, server, router,
                   lastCall>>

----
\* package auth / authn: the request path behind the two routes.

RequestUsernames == {"alice", "bob"}
RequestPasswords == {"p1", "p2"}

\* The hash a stored PasswordHash is compared with.
Hash(password) == IF password = "p1" THEN "h1" ELSE "h2"

Subject(id) == [kind |-> "Subject", id |-> id]
NoSubject == [kind |-> "nil", id |-> ""]

\* Index of the first entry with the username, 0 when there is none.
FindUser(entries, username) ==
    LET hits == {i \in 1..Len(entries) : entries[i].Username = username}
    IN  IF hits = {} THEN 0 ELSE CHOOSE i \in hits : \A j \in hits : i <= j

\* Faulty variant: a store that cannot be reached is reported as a failed authentication.
AuthenticateConflating(pa, storeUp, username, password) ==
    LET i == FindUser(pa.entries, username)
    IN  IF pa.storeBacked /\ ~storeUp
        THEN [subject |-> NoSubject, err |-> ErrAuthenticationFailed]
        ELSE IF i = 0 \/ pa.entries[i].PasswordHash # Hash(password) \/ ~pa.entries[i].Enabled
        THEN [subject |-> NoSubject, err |-> ErrAuthenticationFailed]
        ELSE [subject |-> Subject(username), err |-> NoErr]

\* PasswordAuthenticator.Authenticate(ctx, username, password) (Subject, error):
\* ErrAuthenticationFailed for an unknown user, a wrong password or a disabled
\* account; a store that cannot be reached is returned as its own error.
Authenticate(pa, storeUp, username, password) ==
    LET i == FindUser(pa.entries, username)
    IN  IF pa.storeBacked /\ ~storeUp
        THEN [subject |-> NoSubject, err |-> Err("store unavailable", "", -1, "")]
        ELSE IF i = 0 \/ pa.entries[i].PasswordHash # Hash(password) \/ ~pa.entries[i].Enabled
        THEN [subject |-> NoSubject, err |-> ErrAuthenticationFailed]
        ELSE [subject |-> Subject(username), err |-> NoErr]

\* The services a call on svc passes through, outermost first: the logging
\* decorator delegates to the service it wraps.
RECURSIVE ServiceChain(_)
ServiceChain(svc) ==
    IF svc.kind = "LoggerTokenService" THEN <<svc.kind>> \o ServiceChain(svc.Service)
    ELSE <<svc.kind>>

\* The service at the end of the chain.
RECURSIVE InnerService(_)
InnerService(svc) ==
    IF svc.kind = "LoggerTokenService" THEN InnerService(svc.Service) ELSE svc

\* RefreshTokenAuthenticator.Authenticate(refreshToken): the verifier checks the
\* token and names its subject, the repository resolves the subject again;
\* ErrAuthenticationFailed when the token is invalid or the subject is unknown or
\* disabled. A nil verifier or repository is a nil dereference at request time.
RefreshAuthenticate(rta, tokenValid, id) ==
    IF rta.verifier.kind = "nil" \/ rta.repository.kind = "nil"
    THEN [subject |-> NoSubject, err |-> Err("nil dereference", "", -1, "")]
    ELSE LET i == FindUser(rta.repository.entries, id)
         IN  IF ~tokenValid \/ i = 0 \/ ~rta.repository.entries[i].Enabled
             THEN [subject |-> NoSubject, err |-> ErrAuthenticationFailed]
             ELSE [subject |-> Subject(id), err |-> NoErr]

NoCall == [method |-> "", handler |-> "", service |-> NilComponent, chain |-> <<>>,
           credential |-> "", username |-> "", password |-> "", storeUp |-> TRUE,
           tokenValid |-> TRUE, err |-> NotRun, subject |-> NoSubject]

\* A handler of the TokenServer bound to the route calls s.Service, which
\* authenticates through the Authenticator of the innermost service: by
\* password, by refresh token, or not at all (anonymous).
Serve(method, credential, username, password, storeUp, tokenValid) ==
    LET route == router[method]
        svc == route.server.Service
        auth == InnerService(svc).Authenticator
        r == IF credential = "password"
             THEN Authenticate(auth.PasswordAuthenticator, storeUp, username, password)
             ELSE IF credential = "refresh_token"
             THEN RefreshAuthenticate(auth.RefreshTokenAuthenticator, tokenValid, username)
             ELSE [subject |-> Subject("anonymous"), err |-> NoErr]
    IN  lastCall' = [method |-> method, handler |-> route.handler, service |-> svc,
                     chain |-> ServiceChain(svc), credential |-> credential,
                     username |-> username, password |-> password, storeUp |-> storeUp,
                     tokenValid |-> tokenValid, err |-> r.err, subject |-> r.subject]

\* GET /token: router.Path("/token").Methods("GET").HandlerFunc(server.TokenHandler)
\* Basic auth credentials are optional: without them the request is anonymous.
TokenHandler ==
    /\ pc = "serving"
    /\ \/ Serve("GET", "anonymous", "", "", TRUE, TRUE)
       \/ \E u \in RequestUsernames, p \in RequestPasswords, up \in BOOLEAN :
            Serve("GET", "password", u, p, up, TRUE)
    /\ UNCHANGED <<pc, registryVars, exitMsg, startupVars, componentVars, service, server,
                   router, listening>>

\* POST /token: router.Path("/token").Methods("POST").HandlerFunc(server.OAuth2Handler)
\* with grant_type=password or grant_type=refresh_token.
OAuth2Handler ==
    /\ pc = "serving"
    /\ \/ \E u \in RequestUsernames, p \in RequestPasswords, up \in BOOLEAN :
            Serve("POST", "password", u, p, up, TRUE)
       \/ \E id \in RequestUsernames, valid \in BOOLEAN :
            Serve("POST", "refresh_token", id, "", TRUE, valid)
    /\ UNCHANGED <<pc, registryVars, exitMsg, startupVars, componentVars, service, server,
                   router, listening>>

----
\* The specification.

Init ==
    /\ pc = "init"
    /\ registry = <<>>
    /\ registerCalls = 0
    /\ lastRegister = [name |-> "", factory |-> NilFactory]
    /\ exitMsg = ""
    /\ configFile = NoFile
    /\ cfg = Nil
    /\ decoded = {}
    /\ unmarshalErr = NotRun
    /\ paValidateErr = NotRun
    /\ validateErr = NotRun
    /\ constructed = {}
    /\ passwordAuthenticator = NilAuthenticator
    /\ accessTokenIssuer = NilComponent
    /\ refreshTokenIssuer = NilRefreshTokenIssuer
    /\ refreshTokenVerifier = NilComponent
    /\ subjectRepository = NilAuthenticator
    /\ refreshTokenAuthenticator = NilComponent
    /\ tokenIssuer = NilComponent
    /\ authenticator = NilComponent
    /\ authorizer = NilComponent
    /\ service = NilComponent
    /\ server = NilComponent
    /\ router = <<>>
    /\ listening = FALSE
    /\ lastCall = NoCall

Next ==
    \/ ConfigInit
    \/ RegisterCall
    \/ StartMain
    \/ MainFlags
    \/ MainLoadConfig
    \/ MainValidate
    \/ MainNewPasswordAuthenticator
    \/ MainNewAccessTokenIssuer
    \/ MainNewRefreshTokenIssuer
    \/ MainCheckVerifier
    \/ MainCheckRepository
    \/ MainWireAuthenticator
    \/ MainNewAuthorizer
    \/ MainWireServer
    \/ MainListenAndServe
    \/ ServeFails
    \/ TokenHandler
    \/ OAuth2Handler

Spec == Init /\ [][Next]_vars

----
\* Properties.

Min(S) == CHOOSE i \in S : \A j \in S : i <= j

\* C1: a call of RegisterPasswordAuthenticatorFactory whose name is already in
\* the registry, or whose factory is nil, panics (the process is aborted, no
\* error is handed back) and leaves the registry as it was before the call.
C1_RegisterPanics ==
    [][(/\ registerCalls' = registerCalls + 1
        /\ \/ lastRegister'.name \in DOMAIN registry
           \/ lastRegister'.factory = NilFactory)
       => (/\ pc' = "panicked"
           /\ exitMsg' # ""
           /\ registry' = registry)]_vars

\* C1 witness: a second registration of "other" has panicked, the entry kept.
C1_Witness ==
    /\ pc = "panicked"
    /\ lastRegister = [name |-> "other", factory |-> OtherFactory]
    /\ registerCalls = 2
    /\ DOMAIN registry = {"user", "other"}

\* C2: when the type name of the configuration is not registered, UnmarshalYAML
\* does not panic and returns no error; the configuration holds the unknown-type
\* placeholder carrying "password authenticator" and the type name, no registered
\* factory was decoded or constructed, and validation answers with the
\* "unknown component type" configuration error, which ends startup.
C2_UnknownTypeIsConfigurationError ==
    (unmarshalErr # NotRun /\ configFile.rawOk /\ configFile.type \notin DOMAIN registry)
    => /\ pc # "panicked"
       /\ unmarshalErr = NoErr
       /\ cfg = FactoryValue("unknownFactoryType", <<>>, "password authenticator",
                             configFile.type)
       /\ decoded = {}
       /\ constructed = {}
       /\ passwordAuthenticator = NilAuthenticator
       /\ validateErr # NotRun
          => /\ validateErr = Err("unknown component type", "password authenticator", -1,
                                  configFile.type)
             /\ pc = "exited"

\* C2 witness: startup ended on the unknown type "other", which nobody registered.
C2_Witness ==
    /\ configFile.rawOk
    /\ configFile.type = "other"
    /\ "other" \notin DOMAIN registry
    /\ cfg.kind = "unknownFactoryType"
    /\ validateErr.kind = "unknown component type"
    /\ pc = "exited"

\* C3: no component's New() is called unless config.Validate() has returned nil;
\* when Validate returns an error the process exits with nothing constructed
\* and no listener.
C3_ValidateBeforeConstruct ==
    /\ constructed # {} => validateErr = NoErr
    /\ validateErr \notin {NotRun, NoErr}
       => /\ pc = "exited"
          /\ exitMsg = "invalid configuration"
          /\ constructed = {}
          /\ passwordAuthenticator = NilAuthenticator
          /\ authorizer = NilComponent
          /\ ~listening

\* C3 witness: Validate rejected an entry of the user authenticator and the process exited.
C3_Witness ==
    /\ pc = "exited"
    /\ validateErr.kind = "required"
    /\ constructed = {}

\* C4: whenever the listener is (about to be) started, every registration has
\* been made: the init phase is over and "user" is registered with its factory.
C4_RegistryPopulatedBeforeListen ==
    (pc \in {"listen", "serving"} \/ listening)
    => /\ "user" \in DOMAIN registry
       /\ registry["user"] = UserFactory

\* C4 witness: the listener runs with the registrations of two packages in place.
C4_Witness ==
    /\ listening
    /\ DOMAIN registry = {"user", "other"}
    /\ cfg.kind = OtherFactory

\* C5: a password authenticator that is no SubjectRepository ends startup at the
\* capability check: the listener never starts, nothing is served, and a
\* RefreshTokenAuthenticator is only ever built from an authenticator that passed.
C5_RepositoryRequiredAtStartup ==
    /\ ~passwordAuthenticator.isRepo
       => /\ ~listening
          /\ pc \notin {"wireAuthenticator", "newAuthorizer", "wireServer", "listen", "serving"}
          /\ refreshTokenAuthenticator = NilComponent
          /\ lastCall = NoCall
    /\ refreshTokenAuthenticator # NilComponent
       => /\ refreshTokenAuthenticator.repository = passwordAuthenticator
          /\ passwordAuthenticator.isRepo
    /\ exitMsg = "password authenticator should also serve as a subject repository"
       => pc = "exited" /\ ~passwordAuthenticator.isRepo
    /\ lastCall.credential = "refresh_token"
       => /\ authenticator.RefreshTokenAuthenticator.repository = passwordAuthenticator
          /\ lastCall.err \in {NoErr, ErrAuthenticationFailed}

\* C5 witness: startup exited at the check on an authenticator without the capability.
C5_Witness ==
    /\ pc = "exited"
    /\ exitMsg = "password authenticator should also serve as a subject repository"
    /\ passwordAuthenticator.kind = "OtherAuthenticator"
    /\ ~passwordAuthenticator.isRepo
    /\ refreshTokenIssuer.canVerify

\* C6: a refresh token issuer that cannot verify refresh tokens ends startup:
\* no RefreshTokenAuthenticator is built, the listener never starts, and a
\* running server always has the issuer as its verifier.
C6_VerifierRequiredAtStartup ==
    /\ (refreshTokenIssuer.kind # "nil" /\ ~refreshTokenIssuer.canVerify)
       => /\ pc \in {"checkVerifier", "exited"}
          /\ ~listening
          /\ refreshTokenAuthenticator = NilComponent
          /\ lastCall = NoCall
    /\ exitMsg = "refresh token issuer cannot verify refresh tokens"
       => pc = "exited" /\ ~refreshTokenIssuer.canVerify
    /\ (listening \/ lastCall # NoCall)
       => /\ refreshTokenIssuer.canVerify
          /\ refreshTokenAuthenticator.verifier = refreshTokenIssuer
          /\ authenticator.RefreshTokenAuthenticator.verifier = refreshTokenIssuer
          /\ lastCall.err.kind # "nil dereference"

\* C6 witness: startup exited on an issuer that cannot verify.
C6_Witness ==
    /\ pc = "exited"
    /\ exitMsg = "refresh token issuer cannot verify refresh tokens"
    /\ refreshTokenIssuer.kind = "RefreshTokenIssuer"
    /\ ~refreshTokenIssuer.canVerify

\* C7: the registry changes only during process initialisation; no step taken
\* once the listener has started (a request on either route included) changes it.
C7_RegistryReadOnlyWhileServing ==
    [][registry' # registry
       => (pc \in {"init", "imports"} /\ ~listening /\ ~listening')]_vars

\* C7 witness: requests have been served with a registry of two entries.
C7_Witness ==
    /\ listening
    /\ lastCall.method = "POST"
    /\ DOMAIN registry = {"user", "other"}
    /\ registerCalls = MaxRegisterCalls - 1

\* C8: Authenticate answers ErrAuthenticationFailed exactly when credential
\* verification fails (unknown user, wrong password, disabled account); a store
\* that cannot be reached is answered with another, distinct error.
C8_AuthenticationFailedOnlyOnVerification ==
    lastCall.credential = "password"
    => LET pa == passwordAuthenticator
           i == FindUser(pa.entries, lastCall.username)
           storeDown == pa.storeBacked /\ ~lastCall.storeUp
           verified == /\ i # 0
                       /\ pa.entries[i].PasswordHash = Hash(lastCall.password)
                       /\ pa.entries[i].Enabled
       IN  /\ lastCall.err = ErrAuthenticationFailed <=> (~storeDown /\ ~verified)
           /\ storeDown => lastCall.err \notin {NoErr, ErrAuthenticationFailed}
           /\ lastCall.err = NoErr <=> (~storeDown /\ verified)

\* C8 witness: a request with valid credentials failed on an unreachable store.
C8_Witness ==
    /\ lastCall.credential = "password"
    /\ passwordAuthenticator.storeBacked
    /\ ~lastCall.storeUp
    /\ lastCall.username = "alice"
    /\ lastCall.password = "p1"
    /\ lastCall.err.kind = "store unavailable"

\* C9: both routes are bound to the one TokenServer, whose service is the logging
\* decorator around the TokenServiceImpl built from the Authenticator, the
\* Authorizer and the TokenIssuer of main; every request served went through it.
C9_OneServiceBehindBothRoutes ==
    /\ (pc \in {"listen", "serving"} \/ listening)
       => /\ router["GET"].server = server
          /\ router["POST"].server = server
          /\ router["GET"].handler = "TokenHandler"
          /\ router["POST"].handler = "OAuth2Handler"
          /\ server.Service = service
          /\ service = LoggerTokenService(TokenServiceImpl)
    /\ lastCall # NoCall
       => /\ lastCall.service = LoggerTokenService(TokenServiceImpl)
          /\ lastCall.chain = <<"LoggerTokenService", "TokenServiceImpl">>
          /\ lastCall.handler = IF lastCall.method = "GET" THEN "TokenHandler"
                                ELSE "OAuth2Handler"

\* C9 witness: a POST request was authenticated through the decorated service.
C9_Witness ==
    /\ lastCall.method = "POST"
    /\ lastCall.err = NoErr
    /\ lastCall.chain = <<"LoggerTokenService", "TokenServiceImpl">>

\* C10: userAuthenticator.Validate returns nil iff every entry has a username
\* and a password hash; otherwise the error names the lowest offending index
\* and the missing field, the username before the password hash; the entries
\* are left as they were.
C10_ValidateReportsFirstOffender ==
    [][(pc = "validate" /\ pc' # "validate" /\ cfg.kind = "userAuthenticator")
       => /\ cfg' = cfg
          /\ LET E == cfg.Entries
                 bad == {i \in 1..Len(E) : E[i].Username = "" \/ E[i].PasswordHash = ""}
             IN  IF bad = {} THEN paValidateErr' = NoErr
                 ELSE paValidateErr' =
                        Err("required", "user authenticator", Min(bad) - 1,
                            IF E[Min(bad)].Username = "" THEN "username"
                            ELSE "password hash")]_vars

\* C10 witness: the second entry lacks both fields and the username is reported.
C10_Witness ==
    /\ cfg.kind = "userAuthenticator"
    /\ Len(cfg.Entries) = 2
    /\ cfg.Entries[2].Username = ""
    /\ cfg.Entries[2].PasswordHash = ""
    /\ paValidateErr = Err("required", "user authenticator", 1, "username")

====
